---- MODULE Spec2Model ----
(***************************************************************************)
(* Model of src/src/index-testing.ts: the GraphQL gateway that stitches    *)
(* derived financial fields onto a remote subgraph schema.                 *)
(*                                                                         *)
(*  Spec        - process start-up (endpoint checks, run, createSchema)    *)
(*                followed by operations routed through the split link.    *)
(*  SpecResolve - one derived-field resolution at a time: an object is     *)
(*                fetched, the field's resolver runs on it, the request    *)
(*                completes.                                               *)
(***************************************************************************)
EXTENDS Integers, Sequences, FiniteSets, TLC

VARIABLES
  \* ---- start-up and link (Spec) ----
  env,        \* which of the two endpoint variables are set
  pc,         \* position of the module body / run()
  remote,     \* outcome of introspectSchema: "none" | "ok" | "failed"
  merged,     \* outcome of mergeSchemas:     "none" | "ok" | "failed"
  declared,   \* extension fields declared by customSchema, once composed
  registered, \* fields given a (fragment, resolve) pair, once composed
  listening,  \* server.listen was called
  routed,     \* operations forwarded by the link, oldest first
  \* ---- derived-field resolution (SpecResolve) ----
  lib,        \* behaviour of the decimal library where the code leaves it open
  rpc,        \* "idle" | "fetched" | "resolved"
  field,      \* the derived field being resolved
  obj,        \* the fetched parent object (an Account or an AccountCToken)
  result,     \* what the resolver returned or threw
  events      \* what the resolver did: reads, operands, comparisons, divisions

serverVars  == <<env, pc, remote, merged, declared, registered, listening, routed>>
resolveVars == <<lib, rpc, field, obj, result, events>>
vars        == <<serverVars, resolveVars>>

(***************************************************************************)
(* Bounds                                                                  *)
(***************************************************************************)
MaxTokens == 2     \* positions per fetched account
MaxOps    == 3     \* operations routed after start-up
MaxDefs   == 2     \* definitions per operation document

(***************************************************************************)
(* Decimal strings as they arrive from upstream: sequences of characters.  *)
(***************************************************************************)
Digits == <<"0", "1", "2", "3", "4", "5", "6", "7", "8", "9">>

IsDigit(c) == \E i \in 1..Len(Digits) : Digits[i] = c

DigitOf(c) == (CHOOSE i \in 1..Len(Digits) : Digits[i] = c) - 1

RECURSIVE Pow10(_)
Pow10(n) == IF n = 0 THEN 1 ELSE 10 * Pow10(n - 1)

RECURSIVE DigitsVal(_)
DigitsVal(ds) ==
  IF ds = <<>> THEN 0
  ELSE 10 * DigitsVal(SubSeq(ds, 1, Len(ds) - 1)) + ds[Len(ds)]

RECURSIVE StripZeros(_)
StripZeros(ds) ==
  IF ds # <<>> /\ ds[Len(ds)] = 0 THEN StripZeros(SubSeq(ds, 1, Len(ds) - 1))
  ELSE ds

\* the digits of n, most significant first, in exactly len positions
RECURSIVE NatDigits(_, _)
NatDigits(n, len) ==
  IF len = 0 THEN <<>>
  ELSE Append(NatDigits(n \div 10, len - 1), n % 10)

Abs(n) == IF n < 0 THEN -n ELSE n

Max(a, b) == IF a >= b THEN a ELSE b

(***************************************************************************)
(* Values a resolver handles.                                              *)
(*   raw string : a field of the fetched object, not yet parsed            *)
(*   money      : a decimal object; ref is its object identity             *)
(*   null       : the explicit absent value                                *)
(*   error      : a thrown exception                                       *)
(***************************************************************************)
Str(chars) == [k |-> "str", ref |-> <<>>, neg |-> FALSE, ip |-> 0, fd |-> <<>>, s |-> chars]

Money(ref, neg, ip, fd) == [k |-> "money", ref |-> ref, neg |-> neg, ip |-> ip, fd |-> fd, s |-> <<>>]

Null == [k |-> "null", ref |-> <<>>, neg |-> FALSE, ip |-> 0, fd |-> <<>>, s |-> <<>>]

Err(name) == [k |-> "error", ref |-> <<>>, neg |-> FALSE, ip |-> 0, fd |-> <<>>, s |-> <<name>>]

\* a value together with what was done to obtain it
R(v, ev) == [v |-> v, ev |-> ev]

Ev(e, a, b) == [e |-> e, a |-> a, b |-> b]

Failed(r) == r.v.k = "error"

\* position of the decimal point in chars, or Len(chars) + 1 when there is none
PointAt(chars) ==
  IF \E i \in 1..Len(chars) : chars[i] = "."
  THEN CHOOSE i \in 1..Len(chars) : chars[i] = "." /\ \A j \in 1..(i - 1) : chars[j] # "."
  ELSE Len(chars) + 1

WellFormed(chars) ==
  LET body == IF chars # <<>> /\ chars[1] = "-" THEN Tail(chars) ELSE chars
      p    == PointAt(body)
  IN  /\ p > 1
      /\ p # Len(body)
      /\ \A i \in 1..Len(body) : i # p => IsDigit(body[i])

\* new bigDecimal(value): the decimal the string spells, digit by digit
ParseDecimal(chars, ref) ==
  IF ~WellFormed(chars) THEN Err("InvalidDecimal")
  ELSE LET neg  == chars[1] = "-"
           body == IF neg THEN Tail(chars) ELSE chars
           p    == PointAt(body)
           ipd  == [i \in 1..(p - 1) |-> DigitOf(body[i])]
           frac == IF p > Len(body) THEN <<>>
                   ELSE [i \in 1..(Len(body) - p) |-> DigitOf(body[p + i])]
       IN  Money(ref, neg, DigitsVal(ipd), frac)

\* bigdec(value); site tells the objects of different new-expressions apart
bigdec(value, site) == R(ParseDecimal(value.v.s, <<site>>), value.ev)

\* the number a decimal denotes, as unscaled integer and scale with no trailing zeros
ToScaled(m) ==
  LET f   == StripZeros(m.fd)
      mag == m.ip * Pow10(Len(f)) + DigitsVal(f)
  IN  [u |-> IF m.neg THEN -mag ELSE mag, sc |-> Len(f)]

FromScaled(u, sc, scale, ref) ==
  LET mag == Abs(u)
  IN  Money(ref, u < 0, mag \div Pow10(sc),
            NatDigits(mag % Pow10(sc), sc) \o [i \in 1..(scale - sc) |-> 0])

IsZero(m) == m.ip = 0 /\ StripZeros(m.fd) = <<>>

\* equality by value: the same number, whatever the spelling or the object
ValueEq(a, b) ==
  /\ a.k = "money"
  /\ b.k = "money"
  /\ a.ip = b.ip
  /\ StripZeros(a.fd) = StripZeros(b.fd)
  /\ (a.neg = b.neg \/ IsZero(a))

\* JavaScript == on two objects: the same object
RefEq(a, b) == a.ref = b.ref

(***************************************************************************)
(* Decimal arithmetic (the Decimal Value contract): exact add, subtract    *)
(* and multiply; divide at an explicit scale, rounded down, failing on a   *)
(* zero divisor.                                                           *)
(***************************************************************************)
MulMoney(a, b) ==
  LET x == ToScaled(a)
      y == ToScaled(b)
  IN  FromScaled(x.u * y.u, x.sc + y.sc, Len(a.fd) + Len(b.fd), <<"multiply">> \o a.ref \o b.ref)

AddScaled(x, y, scale, ref) ==
  LET sc == Max(x.sc, y.sc)
  IN  FromScaled(x.u * Pow10(sc - x.sc) + y.u * Pow10(sc - y.sc), sc, Max(scale, sc), ref)

AddMoney(a, b) ==
  AddScaled(ToScaled(a), ToScaled(b), Max(Len(a.fd), Len(b.fd)), <<"add">> \o a.ref \o b.ref)

SubMoney(a, b) ==
  LET y == ToScaled(b)
  IN  AddScaled(ToScaled(a), [u |-> -y.u, sc |-> y.sc], Max(Len(a.fd), Len(b.fd)),
                <<"subtract">> \o a.ref \o b.ref)

\* the next n digits of rem / den after the decimal point
RECURSIVE LongDiv(_, _, _)
LongDiv(rem, den, n) ==
  IF n = 0 THEN <<>>
  ELSE <<(rem * 10) \div den>> \o LongDiv((rem * 10) % den, den, n - 1)

DivMoney(a, b, scale) ==
  LET x   == ToScaled(a)
      y   == ToScaled(b)
      num == Abs(x.u) * Pow10(y.sc)
      den == Abs(y.u) * Pow10(x.sc)
  IN  IF y.u = 0 THEN Err("DivisionByZero")
      ELSE Money(<<"divide">> \o a.ref \o b.ref,
                 (x.u < 0) # (y.u < 0) /\ x.u # 0,
                 num \div den, LongDiv(num % den, den, scale))

(***************************************************************************)
(* Method calls on a decimal object.  The resolvers hand the library raw   *)
(* strings (fields of an untyped object) and call plus on a decimal; what  *)
(* the library makes of either is fixed by the build, not by this file.    *)
(***************************************************************************)
LibStrings == {"coerces", "rejects"}
LibPlus    == {"adds", "unary", "missing"}

\* the decimal the library works with when handed arg
Operand(arg) ==
  IF arg.k = "money" THEN arg
  ELSE IF lib.strings = "coerces" THEN ParseDecimal(arg.s, <<"coerced">>)
  ELSE Err("TypeError")

Apply(op, a, b, scale) ==
  CASE op = "multiply" -> MulMoney(a, b)
    [] op = "add"      -> AddMoney(a, b)
    [] op = "subtract" -> SubMoney(a, b)
    [] op = "divide"   -> DivMoney(a, b, scale)

\* recv.op(arg [, scale]): receiver first, then the argument, then the call
Call(op, recv, arg, scale) ==
  IF Failed(recv) THEN recv
  ELSE IF Failed(arg) THEN R(arg.v, recv.ev \cup arg.ev)
  ELSE LET b  == Operand(arg.v)
           ev == recv.ev \cup arg.ev \cup {Ev("operand", op, arg.v.k)}
       IN  IF b.k = "error" THEN R(b, ev)
           ELSE R(Apply(op, recv.v, b, scale),
                  ev \cup IF op = "divide"
                          THEN {Ev("divide", IF IsZero(b) THEN "zero" ELSE "nonzero", "")}
                          ELSE {})

\* acc.plus(arg)
Plus(recv, arg) ==
  IF Failed(recv) THEN recv
  ELSE IF Failed(arg) THEN R(arg.v, recv.ev \cup arg.ev)
  ELSE LET ev == recv.ev \cup arg.ev \cup {Ev("operand", "plus", arg.v.k)}
       IN  CASE lib.plus = "adds"    -> R(AddMoney(recv.v, arg.v), ev)
             [] lib.plus = "unary"   -> R(recv.v, ev)
             [] lib.plus = "missing" -> R(Err("TypeError"), ev)

\* a == b
LooseEq(a, b, site) ==
  [eq |-> RefEq(a.v, b.v), ev |-> a.ev \cup b.ev \cup {Ev("compare", "reference", site)}]

\* r, evaluated after ev happened
After(ev, r) == R(r.v, ev \cup r.ev)

Lit(chars) == R(Str(chars), {})

Zero == <<"0">>

DivScale == 18

(***************************************************************************)
(* Field reads on the fetched (untyped) objects.                           *)
(***************************************************************************)
Read(type, o, name) == R(Str(o[name]), {Ev("read", type, name)})

ReadToken(cToken, name) == Read("AccountCToken", cToken, name)

ReadMarket(cToken, name) ==
  After({Ev("read", "AccountCToken", "market")}, Read("Market", cToken.market, name))

(***************************************************************************)
(* Derived-field functions                                                 *)
(***************************************************************************)
supplyBalanceUnderlying(cToken) ==
  Call("multiply", bigdec(ReadToken(cToken, "cTokenBalance"), "128"),
       ReadMarket(cToken, "exchangeRate"), 0)

borrowBalanceUnderlying(cToken) ==
  LET test == LooseEq(bigdec(ReadToken(cToken, "accountBorrowIndex"), "131:left"),
                      bigdec(Lit(Zero), "131:right"), "131")
  IN  IF test.eq
      THEN After(test.ev, bigdec(Lit(Zero), "132"))
      ELSE Call("divide",
                Call("multiply",
                     After(test.ev, bigdec(ReadToken(cToken, "storedBorrowBalance"), "134")),
                     ReadMarket(cToken, "borrowIndex"), 0),
                ReadToken(cToken, "accountBorrowIndex"), DivScale)

tokenInEth(cToken) ==
  Call("multiply",
       Call("multiply", bigdec(ReadMarket(cToken, "collateralFactor"), "141"),
            ReadMarket(cToken, "exchangeRate"), 0),
       ReadMarket(cToken, "underlyingPrice"), 0)

supplyBalanceETH(cToken) ==
  Call("multiply", supplyBalanceUnderlying(cToken), ReadMarket(cToken, "underlyingPrice"), 0)

borrowBalanceETH(cToken) ==
  Call("multiply", borrowBalanceUnderlying(cToken), ReadMarket(cToken, "underlyingPrice"), 0)

collateralStep(acc, token) ==
  Plus(acc, Call("multiply", tokenInEth(token), ReadToken(token, "cTokenBalance"), 0))

RECURSIVE collateralReduce(_, _)
collateralReduce(tokens, acc) ==
  IF tokens = <<>> THEN acc
  ELSE collateralReduce(Tail(tokens), collateralStep(acc, Head(tokens)))

totalCollateralValueInEth(account) ==
  collateralReduce(account.tokens,
                   After({Ev("read", "Account", "tokens")}, bigdec(Lit(Zero), "154")))

borrowStep(acc, token) ==
  Plus(acc, Call("multiply", bigdec(ReadMarket(token, "underlyingPrice"), "163"),
                 borrowBalanceUnderlying(token), 0))

RECURSIVE borrowReduce(_, _)
borrowReduce(tokens, acc) ==
  IF tokens = <<>> THEN acc
  ELSE borrowReduce(Tail(tokens), borrowStep(acc, Head(tokens)))

\* totalBorrowValueInEth without the hasBorrowed short-circuit
totalBorrowValueInEthAlwaysFolds(account) ==
  borrowReduce(account.tokens,
               After({Ev("read", "Account", "hasBorrowed"), Ev("read", "Account", "tokens")},
                     bigdec(Lit(Zero), "165")))

totalBorrowValueInEth(account) ==
  IF ~account.hasBorrowed
  THEN After({Ev("read", "Account", "hasBorrowed")}, bigdec(Lit(Zero), "159"))
  ELSE borrowReduce(account.tokens,
                    After({Ev("read", "Account", "hasBorrowed"), Ev("read", "Account", "tokens")},
                          bigdec(Lit(Zero), "165")))

(***************************************************************************)
(* Resolvers registered with mergeSchemas                                  *)
(***************************************************************************)
healthResolve(account) ==
  IF ~account.hasBorrowed
  THEN R(Null, {Ev("read", "Account", "hasBorrowed")})
  ELSE LET totalBorrow == After({Ev("read", "Account", "hasBorrowed")},
                                totalBorrowValueInEth(account))
           test        == LooseEq(totalBorrow, bigdec(Lit(Zero), "195:right"), "195")
       IN  IF Failed(totalBorrow) THEN totalBorrow
           ELSE IF test.eq
           THEN After(test.ev, totalCollateralValueInEth(account))
           ELSE Call("divide", After(test.ev, totalCollateralValueInEth(account)),
                     R(totalBorrow.v, {}), DivScale)

lifetimeSupplyInterestAccruedResolve(cToken) ==
  Call("add",
       Call("subtract", supplyBalanceUnderlying(cToken),
            ReadToken(cToken, "totalUnderlyingSupplied"), 0),
       ReadToken(cToken, "totalUnderlyingRedeemed"), 0)

lifetimeBorrowInterestAccruedResolve(cToken) ==
  Call("add",
       Call("subtract", borrowBalanceUnderlying(cToken),
            ReadToken(cToken, "totalUnderlyingBorrowed"), 0),
       ReadToken(cToken, "totalUnderlyingRepaid"), 0)

(***************************************************************************)
(* Fetched objects: every numeric field is a decimal string.               *)
(***************************************************************************)
MarketA == [exchangeRate |-> <<"2">>, borrowIndex |-> <<"1", ".", "1">>,
            collateralFactor |-> <<"0", ".", "5">>, underlyingPrice |-> <<"5">>]

MarketB == [exchangeRate |-> <<"1">>, borrowIndex |-> <<"1", ".", "0">>,
            collateralFactor |-> <<"0", ".", "7", "5">>, underlyingPrice |-> <<"4">>]

Markets == {MarketA, MarketB}

Balances == {<<"0">>, <<"1", "0">>}

\* storedBorrowBalance and accountBorrowIndex of a position
Borrows == {[stored |-> <<"0">>, index |-> <<"0">>],
            [stored |-> <<"1", "0", "0">>, index |-> <<"0", ".", "0">>],
            [stored |-> <<"1", "0", "0">>, index |-> <<"1", ".", "0">>]}

\* totalUnderlyingSupplied / Redeemed / Borrowed / Repaid of a position
Totals == {[supplied |-> <<"0">>, redeemed |-> <<"0">>, borrowed |-> <<"0">>, repaid |-> <<"0">>],
           [supplied |-> <<"2", "5">>, redeemed |-> <<"7", ".", "5">>,
            borrowed |-> <<"1", "0", "0">>, repaid |-> <<"0", ".", "2", "5">>]}

\* an AccountCToken as selected under tokens { ... } of an Account fragment
Tokens ==
  {[cTokenBalance |-> b, storedBorrowBalance |-> w.stored, accountBorrowIndex |-> w.index,
    market |-> m] : b \in Balances, w \in Borrows, m \in Markets}

\* an AccountCToken fetched as the parent of one of its own derived fields
Positions ==
  {[id |-> "AccountCToken", cTokenBalance |-> b, storedBorrowBalance |-> w.stored,
    accountBorrowIndex |-> w.index, market |-> m,
    totalUnderlyingSupplied |-> t.supplied, totalUnderlyingRedeemed |-> t.redeemed,
    totalUnderlyingBorrowed |-> t.borrowed, totalUnderlyingRepaid |-> t.repaid] :
      b \in Balances, w \in Borrows, m \in Markets, t \in Totals}

TokenLists == UNION {[1..n -> Tokens] : n \in 0..MaxTokens}

Accounts == {[id |-> "Account", hasBorrowed |-> h, tokens |-> ts] :
               h \in BOOLEAN, ts \in TokenLists}

NoObject == [id |-> "none"]

(***************************************************************************)
(* The extension schema and the resolver map handed to mergeSchemas        *)
(***************************************************************************)
customSchema ==
  {<<"Account", "totalBorrowValueInEth">>, <<"Account", "totalCollateralValueInEth">>,
   <<"AccountCToken", "supplyBalanceUnderlying">>,
   <<"AccountCToken", "lifetimeSupplyInterestAccrued">>,
   <<"AccountCToken", "borrowBalanceUnderlying">>,
   <<"AccountCToken", "lifetimeBorrowInterestAccrued">>,
   <<"AccountCToken", "supplyBalanceETH">>}

AccountFields == {"health", "totalBorrowValueInEth", "totalCollateralValueInEth"}

TokenFields == {"supplyBalanceUnderlying", "supplyBalanceETH", "lifetimeSupplyInterestAccrued",
                "borrowBalanceUnderlying", "borrowBalanceETH", "lifetimeBorrowInterestAccrued"}

resolvers == {<<"Account", f>> : f \in AccountFields} \cup {<<"AccountCToken", f>> : f \in TokenFields}

(***************************************************************************)
(* One derived-field resolution                                            *)
(***************************************************************************)
\* the stitched schema fetched the parent object of derived field f
Fetch ==
  /\ rpc = "idle"
  /\ \E f \in AccountFields \cup TokenFields :
       \E o \in (IF f \in AccountFields THEN Accounts ELSE Positions) :
         /\ field' = f
         /\ obj' = o
  /\ rpc' = "fetched"
  /\ UNCHANGED <<lib, result, events, serverVars>>

\* the resolve function registered for f returns (or throws) r
Resolved(f, r) ==
  /\ rpc = "fetched"
  /\ field = f
  /\ result' = r.v
  /\ events' = r.ev
  /\ rpc' = "resolved"
  /\ UNCHANGED <<lib, field, obj, serverVars>>

ResolveHealth == Resolved("health", healthResolve(obj))

ResolveTotalBorrowValueInEth == Resolved("totalBorrowValueInEth", totalBorrowValueInEth(obj))

ResolveTotalCollateralValueInEth ==
  Resolved("totalCollateralValueInEth", totalCollateralValueInEth(obj))

ResolveSupplyBalanceUnderlying ==
  Resolved("supplyBalanceUnderlying", supplyBalanceUnderlying(obj))

ResolveSupplyBalanceETH == Resolved("supplyBalanceETH", supplyBalanceETH(obj))

ResolveLifetimeSupplyInterestAccrued ==
  Resolved("lifetimeSupplyInterestAccrued", lifetimeSupplyInterestAccruedResolve(obj))

ResolveBorrowBalanceUnderlying ==
  Resolved("borrowBalanceUnderlying", borrowBalanceUnderlying(obj))

ResolveBorrowBalanceETH == Resolved("borrowBalanceETH", borrowBalanceETH(obj))

ResolveLifetimeBorrowInterestAccrued ==
  Resolved("lifetimeBorrowInterestAccrued", lifetimeBorrowInterestAccruedResolve(obj))

\* the field's value went into the response; the request's objects are dropped
Complete ==
  /\ rpc = "resolved"
  /\ rpc' = "idle"
  /\ field' = "none"
  /\ obj' = NoObject
  /\ result' = Null
  /\ events' = {}
  /\ UNCHANGED <<lib, serverVars>>

InitResolve ==
  /\ env = [query |-> TRUE, subscription |-> TRUE]
  /\ pc = "serving"
  /\ remote = "ok"
  /\ merged = "ok"
  /\ declared = customSchema
  /\ registered = resolvers
  /\ listening = TRUE
  /\ routed = <<>>
  /\ lib \in [strings : LibStrings, plus : LibPlus]
  /\ rpc = "idle"
  /\ field = "none"
  /\ obj = NoObject
  /\ result = Null
  /\ events = {}

NextResolve ==
  \/ Fetch
  \/ ResolveHealth
  \/ ResolveTotalBorrowValueInEth
  \/ ResolveTotalCollateralValueInEth
  \/ ResolveSupplyBalanceUnderlying
  \/ ResolveSupplyBalanceETH
  \/ ResolveLifetimeSupplyInterestAccrued
  \/ ResolveBorrowBalanceUnderlying
  \/ ResolveBorrowBalanceETH
  \/ ResolveLifetimeBorrowInterestAccrued
  \/ Complete

SpecResolve == InitResolve /\ [][NextResolve]_vars

(***************************************************************************)
(* The dependency fragments registered next to each resolve function, as   *)
(* the set of (type, field) pairs they select.                             *)
(***************************************************************************)
fragment(f) ==
  CASE f \in {"health", "totalBorrowValueInEth"} ->
         {<<"Account", "id">>, <<"Account", "hasBorrowed">>, <<"Account", "tokens">>,
          <<"AccountCToken", "cTokenBalance">>, <<"AccountCToken", "storedBorrowBalance">>,
          <<"AccountCToken", "accountBorrowIndex">>, <<"AccountCToken", "market">>,
          <<"Market", "borrowIndex">>, <<"Market", "collateralFactor">>,
          <<"Market", "exchangeRate">>, <<"Market", "underlyingPrice">>}
    [] f = "totalCollateralValueInEth" ->
         {<<"Account", "id">>, <<"Account", "tokens">>,
          <<"AccountCToken", "cTokenBalance">>, <<"AccountCToken", "market">>,
          <<"Market", "collateralFactor">>, <<"Market", "exchangeRate">>,
          <<"Market", "underlyingPrice">>}
    [] f = "supplyBalanceUnderlying" ->
         {<<"AccountCToken", "id">>, <<"AccountCToken", "cTokenBalance">>,
          <<"AccountCToken", "market">>, <<"Market", "exchangeRate">>}
    [] f = "supplyBalanceETH" ->
         {<<"AccountCToken", "id">>, <<"AccountCToken", "supplyBalanceUnderlying">>,
          <<"AccountCToken", "market">>, <<"Market", "underlyingPrice">>}
    [] f = "lifetimeSupplyInterestAccrued" ->
         {<<"AccountCToken", "id">>, <<"AccountCToken", "cTokenBalance">>,
          <<"AccountCToken", "market">>, <<"Market", "exchangeRate">>,
          <<"AccountCToken", "totalUnderlyingSupplied">>,
          <<"AccountCToken", "totalUnderlyingRedeemed">>}
    [] f = "borrowBalanceUnderlying" ->
         {<<"AccountCToken", "id">>, <<"AccountCToken", "storedBorrowBalance">>,
          <<"AccountCToken", "accountBorrowIndex">>, <<"AccountCToken", "market">>,
          <<"Market", "borrowIndex">>}
    [] f = "borrowBalanceETH" ->
         {<<"AccountCToken", "id">>, <<"AccountCToken", "borrowBalanceUnderlying">>,
          <<"AccountCToken", "market">>, <<"Market", "underlyingPrice">>}
    [] f = "lifetimeBorrowInterestAccrued" ->
         {<<"AccountCToken", "id">>, <<"AccountCToken", "storedBorrowBalance">>,
          <<"AccountCToken", "accountBorrowIndex">>, <<"AccountCToken", "market">>,
          <<"Market", "borrowIndex">>, <<"AccountCToken", "totalUnderlyingBorrowed">>,
          <<"AccountCToken", "totalUnderlyingRepaid">>}
    [] OTHER -> {}

(***************************************************************************)
(* Operation documents and the split link                                  *)
(***************************************************************************)
Definitions ==
  {[kind |-> "OperationDefinition", operation |-> "query"],
   [kind |-> "OperationDefinition", operation |-> "mutation"],
   [kind |-> "OperationDefinition", operation |-> "subscription"],
   [kind |-> "FragmentDefinition", operation |-> "none"]}

\* documents an executor sends: at most one operation, any number of fragments
Documents ==
  {d \in UNION {[1..n -> Definitions] : n \in 1..MaxDefs} :
     Cardinality({i \in 1..Len(d) : d[i].kind = "OperationDefinition"}) <= 1}

\* the operation of the document, or its first fragment when it has none
getMainDefinition(query) ==
  IF \E i \in 1..Len(query) : query[i].kind = "OperationDefinition"
  THEN query[CHOOSE i \in 1..Len(query) :
               /\ query[i].kind = "OperationDefinition"
               /\ \A j \in 1..(i - 1) : query[j].kind # "OperationDefinition"]
  ELSE query[1]

\* a link that keeps to the streaming channel once a subscription went through
splitTestPerConnection(query) ==
  LET def == getMainDefinition(query)
  IN  \/ (def.kind = "OperationDefinition" /\ def.operation = "subscription")
      \/ \E i \in 1..Len(routed) : routed[i].channel = "ws"

\* the test handed to split(): TRUE sends the operation to wsLink, FALSE to httpLink
splitTest(query) ==
  LET def == getMainDefinition(query)
  IN  def.kind = "OperationDefinition" /\ def.operation = "subscription"

(***************************************************************************)
(* Start-up: the module body, then run()                                   *)
(***************************************************************************)
CheckQueryEndpoint ==
  /\ pc = "start"
  /\ pc' = IF env.query THEN "checkSubscription" ELSE "crashed"
  /\ UNCHANGED <<env, remote, merged, declared, registered, listening, routed, resolveVars>>

\* a module body that does not look at SUBGRAPH_SUBSCRIPTION_ENDPOINT
CheckSubscriptionEndpointMissing ==
  /\ pc = "checkSubscription"
  /\ pc' = "run"
  /\ UNCHANGED <<env, remote, merged, declared, registered, listening, routed, resolveVars>>

CheckSubscriptionEndpoint ==
  /\ pc = "checkSubscription"
  /\ pc' = IF env.subscription THEN "run" ELSE "crashed"
  /\ UNCHANGED <<env, remote, merged, declared, registered, listening, routed, resolveVars>>

\* run(): the express application and its middleware
CreateApplication ==
  /\ pc = "run"
  /\ pc' = "createSchema"
  /\ UNCHANGED <<env, remote, merged, declared, registered, listening, routed, resolveVars>>

\* createSchema(): await introspectSchema(httpLink); a failure rejects run()
Introspect ==
  /\ pc = "createSchema"
  /\ \E ok \in BOOLEAN :
       /\ remote' = IF ok THEN "ok" ELSE "failed"
       /\ pc' = IF ok THEN "compose" ELSE "rejected"
  /\ UNCHANGED <<env, merged, declared, registered, listening, routed, resolveVars>>

\* createSchema(): the split link, the remote schema, then mergeSchemas
Compose ==
  /\ pc = "compose"
  /\ declared' = customSchema
  /\ registered' = resolvers
  /\ \E ok \in BOOLEAN :
       /\ merged' = IF ok THEN "ok" ELSE "failed"
       /\ pc' = IF ok THEN "install" ELSE "rejected"
  /\ UNCHANGED <<env, remote, listening, routed, resolveVars>>

\* run(): ApolloServer, applyMiddleware, http.createServer, subscription handlers
InstallHandlers ==
  /\ pc = "install"
  /\ pc' = "listen"
  /\ UNCHANGED <<env, remote, merged, declared, registered, listening, routed, resolveVars>>

\* run(): server.listen(9500), or the catch that sets the exit code
Listen ==
  /\ pc = "listen"
  /\ \E ok \in BOOLEAN :
       /\ listening' = ok
       /\ pc' = IF ok THEN "serving" ELSE "listenFailed"
  /\ UNCHANGED <<env, remote, merged, declared, registered, routed, resolveVars>>

\* the stitched schema sends one operation through the link
Execute ==
  /\ pc = "serving"
  /\ Len(routed) < MaxOps
  /\ \E query \in Documents :
       routed' = Append(routed, [query |-> query,
                                 channel |-> IF splitTest(query) THEN "ws" ELSE "http"])
  /\ UNCHANGED <<env, pc, remote, merged, declared, registered, listening, resolveVars>>

Init ==
  /\ env \in [query : BOOLEAN, subscription : BOOLEAN]
  /\ pc = "start"
  /\ remote = "none"
  /\ merged = "none"
  /\ declared = {}
  /\ registered = {}
  /\ listening = FALSE
  /\ routed = <<>>
  /\ lib \in [strings : LibStrings, plus : LibPlus]
  /\ rpc = "idle"
  /\ field = "none"
  /\ obj = NoObject
  /\ result = Null
  /\ events = {}

Next ==
  \/ CheckQueryEndpoint
  \/ CheckSubscriptionEndpoint
  \/ CreateApplication
  \/ Introspect
  \/ Compose
  \/ InstallHandlers
  \/ Listen
  \/ Execute

Spec == Init /\ [][Next]_vars

(***************************************************************************)
(* Properties                                                              *)
(***************************************************************************)
Parsed(chars) == ParseDecimal(chars, <<"expected">>)

ReadEvents == {e \in events : e.e = "read"}

\* the quantities the properties speak of, computed from the parsed fields
ExpectedBorrowBalance(t) ==
  IF IsZero(Parsed(t.accountBorrowIndex)) THEN Parsed(Zero)
  ELSE DivMoney(MulMoney(Parsed(t.storedBorrowBalance), Parsed(t.market.borrowIndex)),
                Parsed(t.accountBorrowIndex), DivScale)

RECURSIVE ExpectedBorrowTotal(_)
ExpectedBorrowTotal(tokens) ==
  IF tokens = <<>> THEN Parsed(Zero)
  ELSE LET n == Len(tokens)
       IN  AddMoney(ExpectedBorrowTotal(SubSeq(tokens, 1, n - 1)),
                    MulMoney(Parsed(tokens[n].market.underlyingPrice),
                             ExpectedBorrowBalance(tokens[n])))

RECURSIVE ExpectedCollateralTotal(_)
ExpectedCollateralTotal(tokens) ==
  IF tokens = <<>> THEN Parsed(Zero)
  ELSE LET n == Len(tokens)
           m == tokens[n].market
       IN  AddMoney(ExpectedCollateralTotal(SubSeq(tokens, 1, n - 1)),
                    MulMoney(MulMoney(MulMoney(Parsed(m.collateralFactor), Parsed(m.exchangeRate)),
                                      Parsed(m.underlyingPrice)),
                             Parsed(tokens[n].cTokenBalance)))

\* C1: a position whose accountBorrowIndex is numerically zero ("0", "0.0", ...)
\* has borrowBalanceUnderlying equal to the decimal 0, and no division is made.
C1_ZeroIndexGivesZero ==
  (rpc = "resolved" /\ field = "borrowBalanceUnderlying"
     /\ IsZero(Parsed(obj.accountBorrowIndex)))
  => /\ result.k = "money"
     /\ IsZero(result)
     /\ \A e \in events : e.e # "divide" /\ ~(e.e = "operand" /\ e.a = "divide")

\* C2: for an account with hasBorrowed whose totalBorrowValueInEth evaluates to
\* zero, health is exactly totalCollateralValueInEth(account): not an error,
\* not null, not a quotient.
C2_ZeroBorrowGivesCollateral ==
  (rpc = "resolved" /\ field = "health" /\ obj.hasBorrowed
     /\ totalBorrowValueInEth(obj).v.k = "money"
     /\ IsZero(totalBorrowValueInEth(obj).v))
  => /\ result.k = "money"
     /\ ValueEq(result, totalCollateralValueInEth(obj).v)
     /\ \A e \in events : e.e # "divide"

\* C3: no resolver ever calls divide with a zero divisor, so the DivisionByZero
\* error is never raised.
C3_NoDivisionByZero ==
  /\ \A e \in events : ~(e.e = "divide" /\ e.a = "zero")
  /\ ~(result.k = "error" /\ result.s = <<"DivisionByZero">>)

\* C4: for an account with hasBorrowed = false, totalBorrowValueInEth is 0 and
\* health is null, whatever its positions hold, and nothing but hasBorrowed is
\* read from the fetched object.
C4_NoBorrowShortCircuit ==
  (rpc = "resolved" /\ field \in {"health", "totalBorrowValueInEth"} /\ ~obj.hasBorrowed)
  => /\ field = "totalBorrowValueInEth" => (result.k = "money" /\ IsZero(result))
     /\ field = "health" => result = Null
     /\ \A e \in ReadEvents : e.a = "Account" /\ e.b = "hasBorrowed"
     /\ \A e \in events : e.e \notin {"operand", "divide"}

\* C4 witness: totalBorrowValueInEth resolved for a borrow-free account that
\* holds a position with a zero index and one with a stored borrow balance.
C4_Witness ==
  /\ rpc = "resolved"
  /\ field = "totalBorrowValueInEth"
  /\ ~obj.hasBorrowed
  /\ \E i \in 1..Len(obj.tokens) : IsZero(Parsed(obj.tokens[i].accountBorrowIndex))
  /\ \E i \in 1..Len(obj.tokens) : ~IsZero(Parsed(obj.tokens[i].storedBorrowBalance))
  /\ result.k = "money"

\* C5: for an account with hasBorrowed and a non-zero total borrow value, health
\* is the collateral total (the fold from 0 of collateralFactor x exchangeRate x
\* underlyingPrice x cTokenBalance) divided at scale 18 by the borrow total (the
\* sum of underlyingPrice x borrowBalanceUnderlying).
C5_HealthIsQuotient ==
  (rpc = "resolved" /\ field = "health" /\ obj.hasBorrowed
     /\ ~IsZero(ExpectedBorrowTotal(obj.tokens)))
  => /\ result.k = "money"
     /\ ValueEq(result, DivMoney(ExpectedCollateralTotal(obj.tokens),
                                 ExpectedBorrowTotal(obj.tokens), DivScale))

\* C6: the fields a resolver dereferences on the fetched object, helpers
\* included, are all selected by the fragment registered with it.
C6_FragmentCoversReads ==
  rpc = "resolved" => \A e \in ReadEvents : <<e.a, e.b>> \in fragment(field)

\* C7: the fields the extension type declarations add are exactly the fields
\* registered with a fragment and a resolver.
C7_DeclaredIsRegistered ==
  merged # "none" => declared = registered

\* C8: every operation sent through the link went over the streaming channel if
\* and only if the operation of its own document is a subscription; queries and
\* mutations went over the request/response channel, whatever preceded them.
C8_RoutedByOwnKind ==
  \A i \in 1..Len(routed) :
    routed[i].channel = (IF \E j \in 1..Len(routed[i].query) :
                               /\ routed[i].query[j].kind = "OperationDefinition"
                               /\ routed[i].query[j].operation = "subscription"
                         THEN "ws" ELSE "http")

\* C8 witness: one connection's log holds a subscription on the streaming
\* channel followed by a query and a mutation on the request/response channel.
C8_Witness ==
  /\ Len(routed) = 3
  /\ routed[1].channel = "ws"
  /\ getMainDefinition(routed[2].query).operation = "query"
  /\ routed[2].channel = "http"
  /\ getMainDefinition(routed[3].query).operation = "mutation"
  /\ routed[3].channel = "http"

\* C9: the server listens only once both endpoint variables were found set,
\* introspection succeeded and composition succeeded; with an endpoint absent or
\* either step failed it is never listening.
C9_ListenOnlyAfterCompose ==
  /\ listening => (env.query /\ env.subscription /\ remote = "ok" /\ merged = "ok")
  /\ (~env.query \/ ~env.subscription \/ remote = "failed" \/ merged = "failed")
       => (~listening /\ pc # "serving")

\* C9 witness: the server is listening after a complete start-up.
C9_Witness ==
  /\ listening
  /\ pc = "serving"
  /\ remote = "ok"
  /\ merged = "ok"

\* C10: every operand of add, subtract, multiply, divide and plus is a parsed
\* decimal, never a raw string, and decimals are compared by value, never by
\* reference.
C10_OperandsAreParsed ==
  \A e \in events :
    /\ e.e = "operand" => e.b = "money"
    /\ e.e = "compare" => e.a = "value"

====
